---- MODULE Spec2Model ----
(***************************************************************************)
(* tr-trimmer: detection, filtering and trimming of terminal repeats.      *)
(*                                                                         *)
(* A sequence is a tuple of bytes; a byte is written as the one-character  *)
(* string of its ASCII letter.  The detectors (find_dtr, find_itr), the    *)
(* filters (evaluate_tr_complexity, evaluate_ambiguous_bases) and the      *)
(* resolution policy (find_repeats) of src/src/tr.rs are pure functions    *)
(* and are operators here; loops are RECURSIVE operators that take the     *)
(* same steps as the code.  Two specifications apply them:                 *)
(*   SpecDetect  one detector call on one (sequence, min_length);          *)
(*   Spec        one record of the pipeline of src/src/main.rs:            *)
(*               find_repeats, then format_record or the skip.             *)
(***************************************************************************)
EXTENDS Integers, Sequences, FiniteSets, TLC

VARIABLES
    sequence,                    \* the record's bases (record.seq())
    min_length,                  \* Cli.min_length
    disable_dtr_identification,  \* Cli.disable_dtr_trimming
    enable_itr_identification,   \* Cli.enable_itr_identification
    ignore_low_complexity,       \* Cli.ignore_low_complexity
    max_low_complexity_frac,     \* Cli.max_low_complexity_frac, <<num, den>>
    ignore_ambiguous,            \* Cli.ignore_ambiguous
    max_ambiguous_frac,          \* Cli.max_ambiguous_frac, <<num, den>>
    mask,                        \* what dustmasker returned in this call
    pc,                          \* position of the call / of the pipeline
    det,                         \* (found, length) of the detector call
    result,                      \* (has_dtr, has_itr, tr_length)
    calls,                       \* callees find_repeats invoked, in order
    output                       \* the sequence format_record wrote

vars == <<sequence, min_length, disable_dtr_identification,
          enable_itr_identification, ignore_low_complexity,
          max_low_complexity_frac, ignore_ambiguous, max_ambiguous_frac,
          mask, pc, det, result, calls, output>>

config == <<min_length, disable_dtr_identification,
            enable_itr_identification, ignore_low_complexity,
            max_low_complexity_frac, ignore_ambiguous, max_ambiguous_frac>>

-----------------------------------------------------------------------------
(* Bounds of the model.                                                    *)

\* longest sequence given to a single detector call
MaxLen == 4

\* longest record given to the pipeline
MaxRecordLen == 3

\* largest min_length
MaxMinLength == 2

\* most ranges in a low-complexity mask
MaxRanges == 1

-----------------------------------------------------------------------------
(* Bytes.                                                                  *)

Min(a, b) == IF a <= b THEN a ELSE b

\* u8::to_ascii_uppercase, as eq_ignore_ascii_case applies it
to_ascii_uppercase(b) ==
    CASE b = "a" -> "A"
      [] b = "c" -> "C"
      [] b = "g" -> "G"
      [] b = "t" -> "T"
      [] b = "n" -> "N"
      [] OTHER   -> b

\* <[u8]>::eq: the same length and the same bytes
eq(a, b) == a = b

\* <[u8]>::eq_ignore_ascii_case
eq_ignore_ascii_case(a, b) ==
    /\ Len(a) = Len(b)
    /\ \A j \in 1..Len(a) : to_ascii_uppercase(a[j]) = to_ascii_uppercase(b[j])

\* needletail::sequence::complement: the case of the base is kept
complement(b) ==
    CASE b = "A" -> "T"
      [] b = "a" -> "t"
      [] b = "C" -> "G"
      [] b = "c" -> "g"
      [] b = "G" -> "C"
      [] b = "g" -> "c"
      [] b = "T" -> "A"
      [] b = "t" -> "a"
      [] OTHER   -> b

\* Sequence::reverse_complement: iter().rev().map(complement)
reverse_complement(s) ==
    [j \in 1..Len(s) |-> complement(s[Len(s) + 1 - j])]

\* one byte of Sequence::normalize(false): ACGT kept, acgt raised, the rest N
normalize_base(b) ==
    CASE b \in {"A", "C", "G", "T"} -> b
      [] b = "a" -> "A"
      [] b = "c" -> "C"
      [] b = "g" -> "G"
      [] b = "t" -> "T"
      [] OTHER   -> "N"

\* Sequence::normalize(false)
normalize(s) == [j \in 1..Len(s) |-> normalize_base(s[j])]

-----------------------------------------------------------------------------
(* The detectors.                                                          *)

\* the loop of find_dtr: length runs from seq_len / 2 down to min_length
RECURSIVE find_dtr_scan(_, _, _)
find_dtr_scan(s, min_len, length) ==
    IF length < min_len
    THEN <<FALSE, 0>>
    ELSE IF eq_ignore_ascii_case(SubSeq(s, 1, length),
                                 SubSeq(s, Len(s) - length + 1, Len(s)))
         THEN <<TRUE, length>>
         ELSE find_dtr_scan(s, min_len, length - 1)

\* the same loop without .rev(): the shortest match wins
RECURSIVE find_dtr_scan_up(_, _, _)
find_dtr_scan_up(s, min_len, length) ==
    IF length > Len(s) \div 2
    THEN <<FALSE, 0>>
    ELSE IF eq_ignore_ascii_case(SubSeq(s, 1, length),
                                 SubSeq(s, Len(s) - length + 1, Len(s)))
         THEN <<TRUE, length>>
         ELSE find_dtr_scan_up(s, min_len, length + 1)

find_dtr_shortest(s, min_len) ==
    IF Len(s) < min_len * 2
    THEN <<FALSE, 0>>
    ELSE find_dtr_scan_up(s, min_len, min_len)

\* the scan started at seq_len instead of seq_len / 2
find_dtr_overlapping(s, min_len) ==
    IF Len(s) < min_len * 2
    THEN <<FALSE, 0>>
    ELSE find_dtr_scan(s, min_len, Len(s))

find_dtr(s, min_len) ==
    IF Len(s) < min_len * 2
    THEN <<FALSE, 0>>
    ELSE find_dtr_scan(s, min_len, Len(s) \div 2)

\* the while loop of find_itr: the value of i when the loop exits
RECURSIVE find_itr_extend(_, _, _)
find_itr_extend(s, rev_complement, i) ==
    IF /\ i <= Len(s) \div 2
       /\ eq_ignore_ascii_case(SubSeq(s, 1, i), SubSeq(rev_complement, 1, i))
    THEN find_itr_extend(s, rev_complement, i + 1)
    ELSE i

\* the loop with i < seq_len / 2 for i <= seq_len / 2
RECURSIVE find_itr_extend_short(_, _, _)
find_itr_extend_short(s, rev_complement, i) ==
    IF /\ i < Len(s) \div 2
       /\ eq_ignore_ascii_case(SubSeq(s, 1, i), SubSeq(rev_complement, 1, i))
    THEN find_itr_extend_short(s, rev_complement, i + 1)
    ELSE i

find_itr_off_by_one(s, min_len) ==
    LET rev_complement == reverse_complement(s) IN
    IF Len(s) < min_len * 2
    THEN <<FALSE, 0>>
    ELSE IF eq(SubSeq(s, 1, min_len), SubSeq(rev_complement, 1, min_len))
         THEN <<TRUE, find_itr_extend_short(s, rev_complement, min_len) - 1>>
         ELSE <<FALSE, 0>>

\* find_itr without the seq_len < min_length * 2 return, slices clamped
find_itr_unguarded(s, min_len) ==
    LET rev_complement == reverse_complement(s)
        n == Min(min_len, Len(s)) IN
    IF eq(SubSeq(s, 1, n), SubSeq(rev_complement, 1, n))
    THEN <<TRUE, find_itr_extend(s, rev_complement, n) - 1>>
    ELSE <<FALSE, 0>>

find_itr(s, min_len) ==
    LET rev_complement == reverse_complement(s) IN
    IF Len(s) < min_len * 2
    THEN <<FALSE, 0>>
    ELSE IF eq(SubSeq(s, 1, min_len), SubSeq(rev_complement, 1, min_len))
         THEN <<TRUE, find_itr_extend(s, rev_complement, min_len) - 1>>
         ELSE <<FALSE, 0>>

-----------------------------------------------------------------------------
(* Inputs.                                                                 *)

\* all sequences over alphabet of length 0..n
SeqsUpTo(alphabet, n) == UNION {[1..k -> alphabet] : k \in 0..n}

DetectBases == {"A", "C", "T", "a", "t", "N"}

Fractions == {<<0, 1>>, <<1, 2>>}

\* clap's defaults of the filter options
DefaultFrac == <<1, 2>>

-----------------------------------------------------------------------------
(* SpecDetect: one call of one detector.                                   *)

InitDetect ==
    /\ sequence \in SeqsUpTo(DetectBases, MaxLen)
    /\ min_length \in 0..MaxMinLength
    /\ disable_dtr_identification = FALSE
    /\ enable_itr_identification = FALSE
    /\ ignore_low_complexity = FALSE
    /\ max_low_complexity_frac = DefaultFrac
    /\ ignore_ambiguous = FALSE
    /\ max_ambiguous_frac = DefaultFrac
    /\ mask = <<>>
    /\ pc = "input"
    /\ det = <<FALSE, 0>>
    /\ result = <<FALSE, FALSE, 0>>
    /\ calls = <<>>
    /\ output = <<>>

CallFindDtr ==
    /\ pc = "input"
    /\ det' = find_dtr(sequence, min_length)
    /\ pc' = "find_dtr"
    /\ UNCHANGED <<sequence, config, mask, result, calls, output>>

CallFindItr ==
    /\ pc = "input"
    /\ det' = find_itr(sequence, min_length)
    /\ pc' = "find_itr"
    /\ UNCHANGED <<sequence, config, mask, result, calls, output>>

NextDetect == CallFindDtr \/ CallFindItr

SpecDetect == InitDetect /\ [][NextDetect]_vars

-----------------------------------------------------------------------------
(* The filters.                                                            *)

\* (n as f64) / (d as f64) <= frac, frac = <<num, den>>: x / 0 is NaN or
\* infinite and compares false
frac_le(n, d, frac) == d # 0 /\ n * frac[2] <= frac[1] * d

\* dustmasker(sequence, 32, 30): some ordered list of disjoint half-open
\* ranges [start, end) over the positions 0..Len(s)
DustMasks(s) ==
    LET Ranges == {r \in [start : 0..Len(s), end : 0..Len(s)] : r.start < r.end}
    IN  {m \in SeqsUpTo(Ranges, MaxRanges) :
            \A j \in 1..(Len(m) - 1) : m[j].end <= m[j + 1].start}

\* mask.iter().take_while(start < tr_length)
\*     .map(end.min(tr_length) - start).sum(), from the k-th range on
RECURSIVE n_lc_tr(_, _, _)
n_lc_tr(lc_mask, k, tr_length) ==
    IF k > Len(lc_mask) \/ ~(lc_mask[k].start < tr_length)
    THEN 0
    ELSE (Min(lc_mask[k].end, tr_length) - lc_mask[k].start)
            + n_lc_tr(lc_mask, k + 1, tr_length)

\* lc_mask is what dustmasker(sequence, 32, 30) returned
evaluate_tr_complexity(lc_mask, tr_length, max_lc_frac) ==
    frac_le(n_lc_tr(lc_mask, 1, tr_length), tr_length, max_lc_frac)

evaluate_ambiguous_bases(s, tr_length, max_ambig_frac) ==
    LET norm_sequence == normalize(s)
        n_ambig == Cardinality({j \in 1..tr_length : norm_sequence[j] = "N"})
    IN  frac_le(n_ambig, tr_length, max_ambig_frac)

-----------------------------------------------------------------------------
(* The resolution policy.                                                  *)

\* one callee of find_repeats: its name, its numeric argument (min_length
\* or tr_length) and what it answered (found or accepted)
Call(fn, arg, ok) == [fn |-> fn, arg |-> arg, ok |-> ok]

\* the filter block without its first return: an accepted complexity check
\* goes on to the ambiguity check
apply_filter_both(s, lc_mask, tr_length, ilc, max_lc, ia, max_amb) ==
    LET c == evaluate_tr_complexity(lc_mask, tr_length, max_lc)
        a == evaluate_ambiguous_bases(s, tr_length, max_amb)
        cc == <<Call("evaluate_tr_complexity", tr_length, c)>>
        ac == <<Call("evaluate_ambiguous_bases", tr_length, a)>>
    IN  IF ilc /\ ~c THEN [calls |-> cc, accept |-> FALSE]
        ELSE IF ia THEN [calls |-> (IF ilc THEN cc ELSE <<>>) \o ac, accept |-> a]
        ELSE [calls |-> (IF ilc THEN cc ELSE <<>>), accept |-> TRUE]

\* the filter block of both branches: which filter runs, and its verdict
apply_filter(s, lc_mask, tr_length, ilc, max_lc, ia, max_amb) ==
    IF ilc
    THEN LET c == evaluate_tr_complexity(lc_mask, tr_length, max_lc)
         IN  [calls |-> <<Call("evaluate_tr_complexity", tr_length, c)>>,
              accept |-> c]
    ELSE IF ia
         THEN LET a == evaluate_ambiguous_bases(s, tr_length, max_amb)
              IN  [calls |-> <<Call("evaluate_ambiguous_bases", tr_length, a)>>,
                   accept |-> a]
         ELSE [calls |-> <<>>, accept |-> TRUE]

\* a rejection that reports no length
dtr_return_zero(has_dtr, tr_length, accept) ==
    IF accept THEN <<has_dtr, FALSE, tr_length>> ELSE <<FALSE, FALSE, 0>>

\* what the DTR branch returns
dtr_return(has_dtr, tr_length, accept) ==
    IF accept THEN <<has_dtr, FALSE, tr_length>> ELSE <<FALSE, FALSE, tr_length>>

\* what the ITR branch returns
itr_return(has_itr, tr_length, accept) ==
    IF accept THEN <<FALSE, has_itr, tr_length>> ELSE <<FALSE, FALSE, tr_length>>

\* the DTR branch falling through to the ITR detector whenever it is enabled
dtr_branch_returns_no_itr(has_dtr, enable_itr) == ~enable_itr

\* has_dtr || !enable_itr_identification
dtr_branch_returns(has_dtr, enable_itr) == has_dtr \/ ~enable_itr

\* a policy that runs every enabled detector and reports what each found
find_repeats_both(s, lc_mask, min_len, disable_dtr, enable_itr, ilc, max_lc, ia, max_amb) ==
    LET dtr == IF disable_dtr THEN <<FALSE, 0>> ELSE find_dtr(s, min_len)
        itr == IF enable_itr THEN find_itr(s, min_len) ELSE <<FALSE, 0>>
        tr_length == IF dtr[1] THEN dtr[2] ELSE itr[2]
        f == apply_filter(s, lc_mask, tr_length, ilc, max_lc, ia, max_amb)
    IN  [ret   |-> IF f.accept THEN <<dtr[1], itr[1], tr_length>>
                   ELSE <<FALSE, FALSE, tr_length>>,
         calls |-> (IF disable_dtr THEN <<>>
                    ELSE <<Call("find_dtr", min_len, dtr[1])>>)
                   \o (IF enable_itr THEN <<Call("find_itr", min_len, itr[1])>>
                       ELSE <<>>)
                   \o f.calls]

\* ret is the returned tuple, calls the callees invoked on the way
find_repeats(s, lc_mask, min_len, disable_dtr, enable_itr, ilc, max_lc, ia, max_amb) ==
    LET dtr == find_dtr(s, min_len)
        dtr_call == IF disable_dtr THEN <<>>
                    ELSE <<Call("find_dtr", min_len, dtr[1])>>
    IN  IF ~disable_dtr /\ dtr_branch_returns(dtr[1], enable_itr)
        THEN LET f == apply_filter(s, lc_mask, dtr[2], ilc, max_lc, ia, max_amb)
             IN  [ret   |-> dtr_return(dtr[1], dtr[2], f.accept),
                  calls |-> dtr_call \o f.calls]
        ELSE IF enable_itr
             THEN LET itr == find_itr(s, min_len)
                      f == apply_filter(s, lc_mask, itr[2],
                                        ilc, max_lc, ia, max_amb)
                  IN  [ret   |-> itr_return(itr[1], itr[2], f.accept),
                       calls |-> dtr_call
                                 \o <<Call("find_itr", min_len, itr[1])>>
                                 \o f.calls]
             ELSE [ret |-> <<FALSE, FALSE, 0>>, calls |-> dtr_call]

Invoked(log, fn) == \E k \in 1..Len(log) : log[k].fn = fn

-----------------------------------------------------------------------------
(* Spec: one record through the pipeline.                                  *)

RecordBases == {"A", "T", "n"}

\* a fraction option is only accepted together with its flag (clap's
\* `requires`); without it the default stands
FracsOf(flag) == IF flag THEN Fractions ELSE {DefaultFrac}

Init ==
    /\ sequence \in SeqsUpTo(RecordBases, MaxRecordLen)
    /\ min_length \in 0..MaxMinLength
    /\ disable_dtr_identification \in BOOLEAN
    /\ enable_itr_identification \in BOOLEAN
    /\ ignore_low_complexity \in BOOLEAN
    /\ max_low_complexity_frac \in FracsOf(ignore_low_complexity)
    /\ ignore_ambiguous \in BOOLEAN
    /\ max_ambiguous_frac \in FracsOf(ignore_ambiguous)
    /\ mask = <<>>
    /\ pc = "read"
    /\ det = <<FALSE, 0>>
    /\ result = <<FALSE, FALSE, 0>>
    /\ calls = <<>>
    /\ output = <<>>

\* pipeline: let (has_dtr, has_itr, tr_length) = find_repeats(...)
FindRepeats ==
    /\ pc = "read"
    /\ \E lc_mask \in DustMasks(sequence) :
          LET r == find_repeats(sequence, lc_mask, min_length,
                                disable_dtr_identification,
                                enable_itr_identification,
                                ignore_low_complexity, max_low_complexity_frac,
                                ignore_ambiguous, max_ambiguous_frac)
          IN  /\ result' = r.ret
              /\ calls' = r.calls
              /\ mask' = IF Invoked(r.calls, "evaluate_tr_complexity")
                         THEN lc_mask ELSE <<>>
    /\ pc' = "classified"
    /\ UNCHANGED <<sequence, config, det, output>>

\* format_record: the sequence it writes, trimmed when a repeat was found
\* and trimming is on
trimmed_sequence(s, has_dtr, has_itr, tr_length, disable_trimming) ==
    IF (has_dtr \/ has_itr) /\ ~disable_trimming
    THEN SubSeq(s, 1, Len(s) - tr_length)
    ELSE s

\* the record is formatted and written; find_repeats' locals are gone
FormatRecord ==
    /\ pc = "classified"
    /\ \E exclude_non_tr_seqs \in BOOLEAN, disable_trimming \in BOOLEAN :
          /\ ~exclude_non_tr_seqs \/ result[1] \/ result[2]
          /\ IF (result[1] \/ result[2]) /\ ~disable_trimming
                /\ result[3] > Len(sequence)
             THEN \* sequence.len() - tr_length underflows: the slice panics
                  /\ pc' = "panicked"
                  /\ output' = output
             ELSE /\ pc' = "written"
                  /\ output' = trimmed_sequence(sequence, result[1], result[2],
                                                result[3], disable_trimming)
    /\ mask' = <<>>
    /\ calls' = <<>>
    /\ UNCHANGED <<sequence, config, det, result>>

\* with exclude_non_tr_seqs set, a record without a repeat is not written
SkipRecord ==
    /\ pc = "classified"
    /\ ~(result[1] \/ result[2])
    /\ pc' = "skipped"
    /\ mask' = <<>>
    /\ calls' = <<>>
    /\ UNCHANGED <<sequence, config, det, result, output>>

Next == FindRepeats \/ FormatRecord \/ SkipRecord

Spec == Init /\ [][Next]_vars

-----------------------------------------------------------------------------
(* Claims about the detectors, checked under SpecDetect.                   *)

\* the leading L bytes equal the trailing L bytes, letter case aside
DtrMatch(s, L) ==
    \A j \in 1..L :
        to_ascii_uppercase(s[j]) = to_ascii_uppercase(s[Len(s) - L + j])

\* the leading L bytes equal the leading L bytes of the reverse complement,
\* letter case aside
ItrMatch(s, L) ==
    \A j \in 1..L :
        to_ascii_uppercase(s[j])
            = to_ascii_uppercase(complement(s[Len(s) + 1 - j]))

\* C2: for min_length >= 1, find_dtr returns (true, L) with L the largest
\* length in min_length..floor(len/2) whose leading and trailing L bytes are
\* equal ignoring case, and (false, 0) when no length of that interval
\* matches.
C2_DtrLongest ==
    (pc = "find_dtr" /\ min_length >= 1) =>
        LET valid == {L \in min_length..(Len(sequence) \div 2) :
                         DtrMatch(sequence, L)}
        IN  IF valid = {}
            THEN det = <<FALSE, 0>>
            ELSE /\ det[1]
                 /\ det[2] \in valid
                 /\ \A L \in valid : det[2] >= L

\* two lengths match, the longer was returned, and the match needs the
\* comparison to ignore case
C2_Witness ==
    /\ pc = "find_dtr"
    /\ min_length = 1
    /\ det = <<TRUE, 2>>
    /\ DtrMatch(sequence, 1)
    /\ sequence[1] # sequence[3]

\* C3: when find_itr reports found, its length L has
\* min_length <= L <= floor(len/2) and is the largest length of that
\* interval whose leading bytes equal those of the reverse complement
\* (ignoring case, as the extension loop compares).
C3_ItrLength ==
    (pc = "find_itr" /\ det[1]) =>
        /\ min_length <= det[2]
        /\ det[2] <= Len(sequence) \div 2
        /\ ItrMatch(sequence, det[2])
        /\ \A L \in min_length..(Len(sequence) \div 2) :
              ItrMatch(sequence, L) => L <= det[2]

\* an ITR anchored at min_length and extended beyond it
C3_Witness ==
    /\ pc = "find_itr"
    /\ det[1]
    /\ min_length >= 1
    /\ det[2] > min_length

to_ascii_lowercase(b) ==
    CASE b = "A" -> "a"
      [] b = "C" -> "c"
      [] b = "G" -> "g"
      [] b = "T" -> "t"
      [] b = "N" -> "n"
      [] OTHER   -> b

\* the sequences that differ from s only in the letter case of some bases
CaseVariants(s) ==
    {[j \in 1..Len(s) |-> IF j \in U THEN to_ascii_uppercase(s[j])
                          ELSE to_ascii_lowercase(s[j])] :
        U \in SUBSET (1..Len(s))}

\* C6: find_itr gives the same (found, length) for all sequences that
\* differ only in the letter case of some bases.
C6_ItrIgnoresCase ==
    pc = "find_itr" =>
        \A s2 \in CaseVariants(sequence) : find_itr(s2, min_length) = det

-----------------------------------------------------------------------------
(* Claims about the resolution policy, checked under Spec.                 *)

FilterFns == {"evaluate_tr_complexity", "evaluate_ambiguous_bases"}

FilterCalls == {k \in 1..Len(calls) : calls[k].fn \in FilterFns}

TooShort == Len(sequence) < 2 * min_length

\* C1: the tuple find_repeats returns never has has_dtr and has_itr both
\* true.
C1_AtMostOneRepeatType ==
    pc # "read" => ~(result[1] /\ result[2])

\* a sequence in which each detector finds a repeat, both enabled
C1_Witness ==
    /\ pc = "classified"
    /\ min_length >= 1
    /\ ~disable_dtr_identification
    /\ enable_itr_identification
    /\ find_dtr(sequence, min_length)[1]
    /\ find_itr(sequence, min_length)[1]
    /\ result[1]

\* C4: for a sequence shorter than 2 * min_length both detectors return
\* (false, 0) and find_repeats returns (false, false, 0), whatever the
\* flags, also when a filter ran on the not-found result.
C4_TooShort ==
    (pc = "classified" /\ TooShort) =>
        /\ find_dtr(sequence, min_length) = <<FALSE, 0>>
        /\ find_itr(sequence, min_length) = <<FALSE, 0>>
        /\ result = <<FALSE, FALSE, 0>>

\* a too short sequence whose not-found result went through a filter
C4_Witness ==
    /\ pc = "classified"
    /\ TooShort
    /\ Len(sequence) >= 1
    /\ enable_itr_identification
    /\ Invoked(calls, "find_itr")
    /\ FilterCalls # {}

\* C5: for min_length >= 1, every filter find_repeats invokes is passed
\* tr_length >= 1.
C5_FilterLengthPositive ==
    (pc = "classified" /\ min_length >= 1) =>
        \A k \in FilterCalls : calls[k].arg >= 1

AnyFractions == {<<0, 1>>, <<1, 2>>, <<1, 1>>}

\* find_repeats on the state's inputs with other ambiguity settings
WithAmbiguous(ia, max_amb) ==
    find_repeats(sequence, mask, min_length, disable_dtr_identification,
                 enable_itr_identification, ignore_low_complexity,
                 max_low_complexity_frac, ia, max_amb).ret

\* what the detector that ran last found, as find_repeats reports it
DetectorResult ==
    IF calls = <<>> THEN <<FALSE, FALSE, 0>>
    ELSE IF calls[Len(calls)].fn = "find_dtr"
         THEN LET d == find_dtr(sequence, min_length)
              IN  <<d[1], FALSE, d[2]>>
         ELSE LET i == find_itr(sequence, min_length)
              IN  <<FALSE, i[1], i[2]>>

\* C7: at most one filter runs per call; with ignore_low_complexity the
\* ambiguity filter never runs and the result does not depend on
\* ignore_ambiguous or max_ambiguous_frac; the ambiguity filter runs only
\* with ignore_low_complexity unset and ignore_ambiguous set; with both
\* unset no filter runs and the detector's result is returned unchanged.
C7_OneFilter ==
    pc = "classified" =>
        /\ Cardinality(FilterCalls) <= 1
        /\ ignore_low_complexity =>
              /\ ~Invoked(calls, "evaluate_ambiguous_bases")
              /\ \A ia \in BOOLEAN, f \in AnyFractions :
                    WithAmbiguous(ia, f) = result
        /\ Invoked(calls, "evaluate_ambiguous_bases") =>
              ~ignore_low_complexity /\ ignore_ambiguous
        /\ (~ignore_low_complexity /\ ~ignore_ambiguous) =>
              FilterCalls = {} /\ result = DetectorResult

\* both filters configured, the complexity filter accepted a DTR that the
\* ambiguity filter would have rejected
C7_Witness ==
    /\ pc = "classified"
    /\ ignore_low_complexity
    /\ ignore_ambiguous
    /\ result[1]
    /\ result[3] >= 1
    /\ Invoked(calls, "evaluate_tr_complexity")
    /\ ~evaluate_ambiguous_bases(sequence, result[3], max_ambiguous_frac)

\* the detector call that found a repeat, if any
FoundCalls ==
    {k \in 1..Len(calls) : calls[k].fn \in {"find_dtr", "find_itr"}
                           /\ calls[k].ok}

\* positions of the leading L bytes inside a range of the mask
LcBases(L) ==
    Cardinality({p \in 0..(L - 1) :
        \E k \in 1..Len(mask) : mask[k].start <= p /\ p < mask[k].end})

\* leading L bytes that are not one of A, C, G, T in either case
AmbiguousBases(L) ==
    Cardinality({j \in 1..L :
        sequence[j] \notin {"A", "C", "G", "T", "a", "c", "g", "t"}})

\* n / L > frac; for L = 0 the fraction is 0 / 0, which no filter accepts
Exceeds(n, L, frac) == L = 0 \/ n * frac[2] > frac[1] * L

\* C8: when a detector finds a repeat of length L and the active filter
\* rejects it (its low-complexity or ambiguous fraction of the leading L
\* bytes exceeds the maximum), find_repeats returns (false, false, L);
\* when the filter accepts, the detector's flag and L are returned.
C8_RejectedKeepsLength ==
    (pc = "classified" /\ FoundCalls # {}
        /\ (ignore_low_complexity \/ ignore_ambiguous)) =>
        LET found == calls[CHOOSE k \in FoundCalls : TRUE]
            L == IF found.fn = "find_dtr"
                 THEN find_dtr(sequence, min_length)[2]
                 ELSE find_itr(sequence, min_length)[2]
            rejected == IF ignore_low_complexity
                        THEN Exceeds(LcBases(L), L, max_low_complexity_frac)
                        ELSE Exceeds(AmbiguousBases(L), L, max_ambiguous_frac)
        IN  result = IF rejected THEN <<FALSE, FALSE, L>>
                     ELSE <<found.fn = "find_dtr", found.fn = "find_itr", L>>

\* a DTR that the complexity filter rejected, its length reported
C8_Witness ==
    /\ pc = "classified"
    /\ ignore_low_complexity
    /\ \E k \in FoundCalls : calls[k].fn = "find_dtr"
    /\ \E k \in FilterCalls : ~calls[k].ok
    /\ result[3] >= 1
    /\ result = <<FALSE, FALSE, result[3]>>

\* C9: find_itr is invoked if and only if ITR identification is enabled
\* and DTR identification is disabled or found nothing; when DTR
\* identification is enabled and finds a DTR, find_itr is not run and
\* has_itr is false, even if a filter rejects the DTR.
C9_ItrOnlyFallback ==
    pc = "classified" =>
        LET has_dtr == find_dtr(sequence, min_length)[1]
        IN  /\ Invoked(calls, "find_itr") <=>
                  (enable_itr_identification
                      /\ (disable_dtr_identification \/ ~has_dtr))
            /\ (~disable_dtr_identification /\ has_dtr) =>
                  ~Invoked(calls, "find_itr") /\ ~result[2]

\* a DTR found and rejected by a filter, an ITR present and enabled too
C9_Witness ==
    /\ pc = "classified"
    /\ min_length >= 1
    /\ ~disable_dtr_identification
    /\ enable_itr_identification
    /\ find_dtr(sequence, min_length)[1]
    /\ find_itr(sequence, min_length)[1]
    /\ \E k \in FilterCalls : ~calls[k].ok
    /\ result = <<FALSE, FALSE, result[3]>>

\* C10: every tr_length find_repeats returns is at most floor(len/2), so
\* the slice of format_record never panics and a written record keeps at
\* least ceil(len/2) bases.
C10_TrimInBounds ==
    /\ pc # "read" => result[3] <= Len(sequence) \div 2
    /\ pc # "panicked"
    /\ pc = "written" =>
          Len(output) >= Len(sequence) - (Len(sequence) \div 2)

\* a record trimmed by the longest repeat its length allows
C10_Witness ==
    /\ pc = "written"
    /\ result[3] >= 1
    /\ result[3] = Len(sequence) \div 2
    /\ Len(output) = Len(sequence) - result[3]

====
